---- MODULE Spec2Model ----
(***************************************************************************)
(* Model of stock_monitor.py: the alert frequency gate (should_send_alert), *)
(* the dispatcher (log_alert), the notifier (send_pushover_notification),   *)
(* the alert history store (alerts/<ticker>.txt, create_alert_file) and the *)
(* polling cycle (check_stock_price_change).                                *)
(*                                                                         *)
(* One run of the script is one polling cycle; the alert files persist      *)
(* between runs.  Time is the wall clock: a proleptic Gregorian day ordinal *)
(* (as datetime.toordinal()) and a second of the day.                       *)
(***************************************************************************)
EXTENDS Integers, Sequences, FiniteSets, TLC

VARIABLES
    clock,            \* wall clock: [ord |-> day ordinal, sec |-> second of day]
    creds,            \* PUSHOVER_USER_KEY and PUSHOVER_API_TOKEN are both set
    watchlist_txt,    \* watchlist.txt: which of the Files is on disk
    watchlist,        \* result of parse_watchlist(): sequence of entries
    session,          \* local of check_stock_price_change ("" outside a cycle)
    fetched,          \* current_price and price history the rules were evaluated with
    cycle_sent,       \* history: tickers notified successfully in this cycle
    alerts,           \* alerts/<ticker>.txt: NoFile or the file's first line
    pc,               \* position of the running script
    idx,              \* index in watchlist of the ticker being processed
    visited,          \* tickers whose loop body has begun in this cycle
    events,           \* rules that fired for the current ticker, not yet dispatched
    call,             \* the current (or last) log_alert call: [ticker, kind]
    should_send,      \* local of log_alert
    pushover_success, \* local of log_alert
    effects,          \* side effects of the current (or last) log_alert call, in order
    notified,         \* history: per ticker, the dates of successful notifications
    retry             \* history: per ticker, last approved event failed to notify

vars == <<clock, creds, watchlist_txt, watchlist, session, fetched, cycle_sent,
          alerts, pc, idx, visited, events, call, should_send, pushover_success,
          effects, notified, retry>>

----------------------------------------------------------------------------
(* Bounds *)

\* how many instants of the Timeline the clock may reach
Horizon == 7

----------------------------------------------------------------------------
(* Calendar arithmetic of datetime (proleptic Gregorian calendar). *)

Years == 2024 .. 2032

IsLeap(y) == (y % 4 = 0) /\ ((y % 100 # 0) \/ (y % 400 = 0))

DaysInMonth(y, m) ==
    IF m = 2 THEN (IF IsLeap(y) THEN 29 ELSE 28)
    ELSE IF m \in {4, 6, 9, 11} THEN 30 ELSE 31

RECURSIVE DaysBeforeMonth(_, _)
DaysBeforeMonth(y, m) ==
    IF m = 1 THEN 0 ELSE DaysBeforeMonth(y, m - 1) + DaysInMonth(y, m - 1)

DaysBeforeYear(y) ==
    (y - 1) * 365 + ((y - 1) \div 4) - ((y - 1) \div 100) + ((y - 1) \div 400)

\* date.toordinal(): 0001-01-01 is day 1
ymd2ord(y, m, d) == DaysBeforeYear(y) + DaysBeforeMonth(y, m) + d

\* date.fromordinal()
ord2ymd(n) ==
    LET y == CHOOSE yy \in Years :
                 DaysBeforeYear(yy) < n /\ n <= DaysBeforeYear(yy + 1)
        r == n - DaysBeforeYear(y)
        m == CHOOSE mm \in 1 .. 12 :
                 DaysBeforeMonth(y, mm) < r
                 /\ r <= DaysBeforeMonth(y, mm) + DaysInMonth(y, mm)
    IN  [year |-> y, month |-> m, day |-> r - DaysBeforeMonth(y, m)]

isoweek1monday(y) ==
    LET firstday == ymd2ord(y, 1, 1)
        firstweekday == (firstday + 6) % 7
        week1monday == firstday - firstweekday
    IN  IF firstweekday > 3 THEN week1monday + 7 ELSE week1monday

\* date.isocalendar(): [year, week] of a datetime value
isocalendar(dt) ==
    LET today == ymd2ord(dt.year, dt.month, dt.day)
        w1 == isoweek1monday(dt.year)
    IN  IF today < w1
        THEN [year |-> dt.year - 1,
              week |-> ((today - isoweek1monday(dt.year - 1)) \div 7) + 1]
        ELSE IF (today - w1) \div 7 >= 52 /\ today >= isoweek1monday(dt.year + 1)
        THEN [year |-> dt.year + 1, week |-> 1]
        ELSE [year |-> dt.year, week |-> ((today - w1) \div 7) + 1]

\* datetime.datetime.now(): the clock as a naive local datetime
now(c) ==
    LET d == ord2ymd(c.ord)
    IN  [year |-> d.year, month |-> d.month, day |-> d.day,
         hour |-> c.sec \div 3600, minute |-> (c.sec % 3600) \div 60,
         second |-> c.sec % 60]

\* datetime.date(): dates compare as (year, month, day)
DateLater(a, b) ==
    \/ a.year > b.year
    \/ a.year = b.year /\ a.month > b.month
    \/ a.year = b.year /\ a.month = b.month /\ a.day > b.day

----------------------------------------------------------------------------
(* Timestamp text "%Y-%m-%d %H:%M:%S": the digits of the six fields, the    *)
(* separators left out.                                                     *)

Digits2(n) == <<(n \div 10) % 10, n % 10>>
Digits4(n) == <<(n \div 1000) % 10, (n \div 100) % 10>> \o Digits2(n)

strftime(dt) ==
    Digits4(dt.year) \o Digits2(dt.month) \o Digits2(dt.day)
    \o Digits2(dt.hour) \o Digits2(dt.minute) \o Digits2(dt.second)

Num2(s, i) == s[i] * 10 + s[i + 1]

\* strptime: the parsed fields (meaningful when StrptimeOk)
strptime(s) ==
    [year |-> Num2(s, 1) * 100 + Num2(s, 3), month |-> Num2(s, 5),
     day |-> Num2(s, 7), hour |-> Num2(s, 9), minute |-> Num2(s, 11),
     second |-> Num2(s, 13)]

\* strptime raises ValueError unless the text matches the format and the
\* fields make a date and a time
StrptimeOk(s) ==
    /\ Len(s) = 14
    /\ \A i \in 1 .. 14 : s[i] \in 0 .. 9
    /\ LET dt == strptime(s)
       IN  /\ dt.year >= 1
           /\ dt.month \in 1 .. 12
           /\ dt.day \in 1 .. DaysInMonth(dt.year, dt.month)
           /\ dt.hour \in 0 .. 23
           /\ dt.minute \in 0 .. 59
           /\ dt.second \in 0 .. 61

----------------------------------------------------------------------------
(* Alert history store: alerts/<ticker>.txt.  Only the first line is ever   *)
(* read back; it is modelled by what should_send_alert looks at:            *)
(*   alert_sent : "Alert sent" occurs in the line                           *)
(*   paren      : the pieces first_line.split('(')[1:], each cut at its     *)
(*                first ')' (empty: the line holds no '(')                   *)

\* os.path.exists(alert_file_path) is false
NoFile == [exists |-> FALSE, alert_sent |-> FALSE, paren |-> <<>>]

\* create_alert_file: overwrite the file with "Alert sent (<timestamp>)"
create_alert_file(c) ==
    [exists |-> TRUE, alert_sent |-> TRUE, paren |-> <<strftime(now(c))>>]

(* Variants of should_send_alert, each with one slip. *)

\* daily as a rolling 24 hour window
should_send_alert_rolling(file, frequency, c) ==
    IF ~file.exists THEN TRUE
    ELSE IF frequency = "once" THEN FALSE
    ELSE IF ~file.alert_sent THEN FALSE
    ELSE IF file.paren = <<>> THEN TRUE
    ELSE IF ~StrptimeOk(file.paren[1]) THEN TRUE
    ELSE LET last_alert_date == strptime(file.paren[1])
             n == now(c)
             elapsed == (ymd2ord(n.year, n.month, n.day)
                         - ymd2ord(last_alert_date.year, last_alert_date.month,
                                   last_alert_date.day)) * 86400
                        + (n.hour - last_alert_date.hour) * 3600
                        + (n.minute - last_alert_date.minute) * 60
                        + (n.second - last_alert_date.second)
         IN  \/ frequency = "daily" /\ elapsed >= 86400
             \/ /\ frequency = "weekly"
                /\ \/ isocalendar(n).year # isocalendar(last_alert_date).year
                   \/ isocalendar(n).week # isocalendar(last_alert_date).week
             \/ /\ frequency = "monthly"
                /\ \/ n.year # last_alert_date.year
                   \/ n.month # last_alert_date.month

\* daily compared with >= ; otherwise as the code
should_send_alert_same_day(file, frequency, c) ==
    IF ~file.exists THEN TRUE
    ELSE IF frequency = "once" THEN FALSE
    ELSE IF ~file.alert_sent THEN FALSE
    ELSE IF file.paren = <<>> THEN TRUE
    ELSE IF ~StrptimeOk(file.paren[1]) THEN TRUE
    ELSE LET last_alert_date == strptime(file.paren[1])
             n == now(c)
         IN  \/ frequency = "daily" /\ ~DateLater(last_alert_date, n)
             \/ /\ frequency = "weekly"
                /\ \/ isocalendar(n).year # isocalendar(last_alert_date).year
                   \/ isocalendar(n).week # isocalendar(last_alert_date).week
             \/ /\ frequency = "monthly"
                /\ \/ n.year # last_alert_date.year
                   \/ n.month # last_alert_date.month

\* weekly and monthly without the year
should_send_alert_no_year(file, frequency, c) ==
    IF ~file.exists THEN TRUE
    ELSE IF frequency = "once" THEN FALSE
    ELSE IF ~file.alert_sent THEN FALSE
    ELSE IF file.paren = <<>> THEN TRUE
    ELSE IF ~StrptimeOk(file.paren[1]) THEN TRUE
    ELSE LET last_alert_date == strptime(file.paren[1])
             n == now(c)
         IN  \/ frequency = "daily" /\ DateLater(n, last_alert_date)
             \/ /\ frequency = "weekly"
                /\ isocalendar(n).week # isocalendar(last_alert_date).week
             \/ /\ frequency = "monthly"
                /\ n.month # last_alert_date.month

\* the once test made before the test that the file exists
should_send_alert_once_first(file, frequency, c) ==
    IF frequency = "once" THEN FALSE
    ELSE IF ~file.exists THEN TRUE
    ELSE IF ~file.alert_sent THEN FALSE
    ELSE IF file.paren = <<>> THEN TRUE
    ELSE IF ~StrptimeOk(file.paren[1]) THEN TRUE
    ELSE LET last_alert_date == strptime(file.paren[1])
             n == now(c)
         IN  \/ frequency = "daily" /\ DateLater(n, last_alert_date)
             \/ /\ frequency = "weekly"
                /\ \/ isocalendar(n).year # isocalendar(last_alert_date).year
                   \/ isocalendar(n).week # isocalendar(last_alert_date).week
             \/ /\ frequency = "monthly"
                /\ \/ n.year # last_alert_date.year
                   \/ n.month # last_alert_date.month

\* once handled as daily
should_send_alert_once_daily(file, frequency, c) ==
    IF ~file.exists THEN TRUE
    ELSE IF ~file.alert_sent THEN FALSE
    ELSE IF file.paren = <<>> THEN TRUE
    ELSE IF ~StrptimeOk(file.paren[1]) THEN TRUE
    ELSE LET last_alert_date == strptime(file.paren[1])
             n == now(c)
         IN  \/ frequency \in {"once", "daily"} /\ DateLater(n, last_alert_date)
             \/ /\ frequency = "weekly"
                /\ \/ isocalendar(n).year # isocalendar(last_alert_date).year
                   \/ isocalendar(n).week # isocalendar(last_alert_date).week
             \/ /\ frequency = "monthly"
                /\ \/ n.year # last_alert_date.year
                   \/ n.month # last_alert_date.month

\* should_send_alert(ticker, frequency), for the ticker's file and the clock
should_send_alert(file, frequency, c) ==
    IF ~file.exists THEN TRUE
    ELSE IF frequency = "once" THEN FALSE
    ELSE IF ~file.alert_sent THEN FALSE
    ELSE IF file.paren = <<>> THEN TRUE                 \* IndexError
    ELSE IF ~StrptimeOk(file.paren[1]) THEN TRUE        \* ValueError
    ELSE LET last_alert_date == strptime(file.paren[1])
             n == now(c)
         IN  \/ frequency = "daily" /\ DateLater(n, last_alert_date)
             \/ /\ frequency = "weekly"
                /\ \/ isocalendar(n).year # isocalendar(last_alert_date).year
                   \/ isocalendar(n).week # isocalendar(last_alert_date).week
             \/ /\ frequency = "monthly"
                /\ \/ n.year # last_alert_date.year
                   \/ n.month # last_alert_date.month

----------------------------------------------------------------------------
(* Market session: the clock read in America/New_York.  The machine's local *)
(* zone is taken six hours ahead of New York.                               *)

NewYorkSec(c) == (c.sec + 86400 - 6 * 3600) % 86400

\* the intervals closed at their upper ends
get_market_session_closed_ends(c) ==
    LET t == NewYorkSec(c)
    IN  IF 4 * 3600 <= t /\ t <= 9 * 3600 + 1800 THEN "pre-market"
        ELSE IF 9 * 3600 + 1800 <= t /\ t <= 16 * 3600 THEN "regular"
        ELSE IF 16 * 3600 <= t /\ t <= 20 * 3600 THEN "post-market"
        ELSE "closed"

get_market_session(c) ==
    LET t == NewYorkSec(c)
    IN  IF 4 * 3600 <= t /\ t < 9 * 3600 + 1800 THEN "pre-market"
        ELSE IF 9 * 3600 + 1800 <= t /\ t < 16 * 3600 THEN "regular"
        ELSE IF 16 * 3600 <= t /\ t < 20 * 3600 THEN "post-market"
        ELSE "closed"

----------------------------------------------------------------------------
(* Rules of check_stock_price_change.  Prices are in cents, thresholds in   *)
(* hundredths of a percent; previous_close # 0 here.                        *)

\* An optional value is <<>> (None) or <<v>>
None == <<>>

\* percent_change > x, x in hundredths of a percent
PercentAbove(current_price, previous_close, x) ==
    IF previous_close > 0
    THEN (current_price - previous_close) * 10000 > x * previous_close
    ELSE (current_price - previous_close) * 10000 < x * previous_close

\* percent_change < x
PercentBelow(current_price, previous_close, x) ==
    IF previous_close > 0
    THEN (current_price - previous_close) * 10000 < x * previous_close
    ELSE (current_price - previous_close) * 10000 > x * previous_close

percentage_alert(config, current_price, previous_close) ==
    IF config.direction = "both"
    THEN \/ PercentAbove(current_price, previous_close, config.threshold)
         \/ PercentBelow(current_price, previous_close, 0 - config.threshold)
    ELSE IF config.direction = "gain"
    THEN PercentAbove(current_price, previous_close, config.threshold)
    ELSE IF config.direction = "drop"
    THEN PercentBelow(current_price, previous_close, 0 - config.threshold)
    ELSE FALSE

\* the three rules as one if / elif chain
FiredRules_elif(config, current_price, previous_close) ==
    IF percentage_alert(config, current_price, previous_close)
    THEN <<"percent_change">>
    ELSE IF config.price_below # None /\ current_price < config.price_below[1]
    THEN <<"price_below">>
    ELSE IF config.price_above # None /\ current_price > config.price_above[1]
    THEN <<"price_above">>
    ELSE <<>>

\* the log_alert calls of one ticker, in program order
FiredRules(config, current_price, previous_close) ==
    (IF percentage_alert(config, current_price, previous_close)
     THEN <<"percent_change">> ELSE <<>>)
    \o (IF config.price_below # None /\ current_price < config.price_below[1]
        THEN <<"price_below">> ELSE <<>>)
    \o (IF config.price_above # None /\ current_price > config.price_above[1]
        THEN <<"price_above">> ELSE <<>>)

----------------------------------------------------------------------------
(* watchlist.txt.  A row is the list of fields csv.reader gives; a field is *)
(* its text, a sequence of characters.                                      *)

UpperCase == <<"A", "B", "C", "D", "E", "F", "G", "H", "I", "J", "K", "L", "M", "N", "O", "P", "Q", "R", "S", "T", "U", "V", "W", "X", "Y", "Z">>

LowerCase == <<"a", "b", "c", "d", "e", "f", "g", "h", "i", "j", "k", "l", "m", "n", "o", "p", "q", "r", "s", "t", "u", "v", "w", "x", "y", "z">>

lower_char(ch) ==
    IF \E i \in 1 .. 26 : UpperCase[i] = ch
    THEN LowerCase[CHOOSE i \in 1 .. 26 : UpperCase[i] = ch]
    ELSE ch

\* str.lower()
lower(s) == [i \in 1 .. Len(s) |-> lower_char(s[i])]

IsSpace(ch) == ch \in {" ", "\t"}

RECURSIVE lstrip(_)
lstrip(s) == IF s # <<>> /\ IsSpace(Head(s)) THEN lstrip(Tail(s)) ELSE s

RECURSIVE rstrip(_)
rstrip(s) ==
    IF s # <<>> /\ IsSpace(s[Len(s)]) THEN rstrip(SubSeq(s, 1, Len(s) - 1)) ELSE s

\* str.strip()
strip(s) == rstrip(lstrip(s))

\* the words of the model as texts
WordTable ==
    { <<"gain", <<"g", "a", "i", "n">>>>,
      <<"drop", <<"d", "r", "o", "p">>>>,
      <<"both", <<"b", "o", "t", "h">>>>,
      <<"once", <<"o", "n", "c", "e">>>>,
      <<"daily", <<"d", "a", "i", "l", "y">>>>,
      <<"weekly", <<"w", "e", "e", "k", "l", "y">>>>,
      <<"monthly", <<"m", "o", "n", "t", "h", "l", "y">>>>,
      <<"up", <<"u", "p">>>>,
      <<"hourly", <<"h", "o", "u", "r", "l", "y">>>>,
      <<"AAA", <<"A", "A", "A">>>>,
      <<"BBB", <<"B", "B", "B">>>>,
      <<"TICKER", <<"T", "I", "C", "K", "E", "R">>>> }

\* the string a text spells ("?" for a text that is no word of the model)
Word(s) ==
    IF \E p \in WordTable : p[2] = s
    THEN (CHOOSE p \in WordTable : p[2] = s)[1]
    ELSE "?"

DigitChars == <<"0", "1", "2", "3", "4", "5", "6", "7", "8", "9">>

IsDigit(ch) == \E i \in 1 .. 10 : DigitChars[i] = ch

DigitValue(ch) == (CHOOSE i \in 1 .. 10 : DigitChars[i] = ch) - 1

RECURSIVE DigitsValue(_)
DigitsValue(s) ==
    IF s = <<>> THEN 0
    ELSE DigitsValue(SubSeq(s, 1, Len(s) - 1)) * 10 + DigitValue(s[Len(s)])

\* float(text) for plain decimals of at most two decimal places: ok is false
\* where float raises ValueError; value is in hundredths
float(s) ==
    LET signed == s # <<>> /\ s[1] \in {"-", "+"}
        body == IF signed THEN Tail(s) ELSE s
        dots == {i \in 1 .. Len(body) : body[i] = "."}
        dot == IF dots = {} THEN Len(body) + 1 ELSE CHOOSE i \in dots : TRUE
        whole == SubSeq(body, 1, dot - 1)
        frac == SubSeq(body, dot + 1, Len(body))
        ok == /\ Cardinality(dots) <= 1
              /\ Len(whole) + Len(frac) > 0
              /\ Len(frac) <= 2
              /\ \A i \in 1 .. Len(whole) : IsDigit(whole[i])
              /\ \A i \in 1 .. Len(frac) : IsDigit(frac[i])
        magnitude == DigitsValue(whole) * 100
                     + (IF Len(frac) = 0 THEN 0
                        ELSE IF Len(frac) = 1 THEN DigitValue(frac[1]) * 10
                        ELSE DigitsValue(frac))
    IN  IF ~ok THEN [ok |-> FALSE, value |-> 0]
        ELSE [ok |-> TRUE,
              value |-> IF signed /\ s[1] = "-" THEN 0 - magnitude ELSE magnitude]

\* DEFAULT_THRESHOLD = 0.5, in hundredths
DEFAULT_THRESHOLD == 50

DEFAULT_ALERT_FREQUENCY == "daily"

\* row[k].strip() if len(row) > k else None (fields are numbered from 1 here)
Field(row, k) == IF Len(row) >= k THEN strip(row[k]) ELSE <<>>

\* lines 200-210
parse_threshold(row) ==
    LET threshold_str == Field(row, 2)
    IN  IF threshold_str = <<>> THEN DEFAULT_THRESHOLD
        ELSE IF float(threshold_str).ok THEN float(threshold_str).value
        ELSE DEFAULT_THRESHOLD

\* lines 214-231: price_below (k = 4) and price_above (k = 5)
parse_price(row, k) ==
    LET price_str == Field(row, k)
    IN  IF price_str # <<>> /\ float(price_str).ok
        THEN <<float(price_str).value>>
        ELSE <<>>

\* direction without the check of lines 235-237
parse_direction_unchecked(row) ==
    IF Field(row, 3) # <<>> THEN Word(lower(Field(row, 3))) ELSE "both"

\* lines 212 and 235-237
parse_direction(row) ==
    LET direction == IF Field(row, 3) # <<>> THEN Word(lower(Field(row, 3))) ELSE "both"
    IN  IF direction \notin {"gain", "drop", "both"} THEN "both" ELSE direction

\* lines 233 and 239-241
parse_alert_frequency(row) ==
    LET alert_frequency == IF Field(row, 6) # <<>> THEN Word(lower(Field(row, 6)))
                           ELSE DEFAULT_ALERT_FREQUENCY
    IN  IF alert_frequency \notin {"once", "daily", "weekly", "monthly"}
        THEN DEFAULT_ALERT_FREQUENCY
        ELSE alert_frequency

\* lines 243-249: the value stored for a row
parse_row(row) ==
    [ticker |-> Word(Field(row, 1)),
     threshold |-> parse_threshold(row),
     direction |-> parse_direction(row),
     price_below |-> parse_price(row, 4),
     price_above |-> parse_price(row, 5),
     alert_frequency |-> parse_alert_frequency(row)]

\* watchlist[ticker] = {...}: a dict keeps the place of a key it already has
DictSet(d, entry) ==
    IF \E i \in 1 .. Len(d) : d[i].ticker = entry.ticker
    THEN [i \in 1 .. Len(d) |-> IF d[i].ticker = entry.ticker THEN entry ELSE d[i]]
    ELSE Append(d, entry)

\* lines 189-198: comments, blank lines and rows with an empty ticker are skipped
SkippedRow(row) ==
    \/ row = <<>>
    \/ (strip(row[1]) # <<>> /\ Head(strip(row[1])) = "#")
    \/ strip(row[1]) = <<>>

\* lines 189-249: the loop over the rows
RECURSIVE ParseRows(_, _)
ParseRows(data, d) ==
    IF data = <<>> THEN d
    ELSE ParseRows(Tail(data),
                   IF SkippedRow(Head(data)) THEN d
                   ELSE DictSet(d, parse_row(Head(data))))

\* lines 173-186: the rows after the first header row, or all rows
rows_to_process(all_rows) ==
    LET headers == {i \in 1 .. Len(all_rows) :
                        all_rows[i] # <<>> /\ Word(strip(all_rows[i][1])) = "TICKER"}
    IN  IF headers = {} THEN all_rows
        ELSE SubSeq(all_rows,
                    (CHOOSE i \in headers : \A j \in headers : i <= j) + 1,
                    Len(all_rows))

\* parse_watchlist(); a missing watchlist.txt is the empty list of rows
parse_watchlist(all_rows) == ParseRows(rows_to_process(all_rows), <<>>)

----------------------------------------------------------------------------
(* Inputs *)

Tickers == {"AAA", "BBB"}

Frequencies == {"once", "daily", "weekly", "monthly"}

\* watchlist.txt as parsed: two rows, every alert_frequency
Watchlists ==
    { << [ticker |-> "AAA", threshold |-> 100, direction |-> "both",
           price_below |-> <<10200>>, price_above |-> <<10100>>,
           alert_frequency |-> f],
         [ticker |-> "BBB", threshold |-> 50, direction |-> "gain",
           price_below |-> None, price_above |-> None,
           alert_frequency |-> g] >> : f \in Frequencies, g \in Frequencies }

\* what get_current_price returns: None or a price
CurrentPrices == {None, <<4999>>, <<10150>>}

\* what yf.download gives: an error, fewer than two rows, or a previous close
Downloads == {[kind |-> "error", close |-> 0], [kind |-> "short", close |-> 0],
              [kind |-> "ok", close |-> 0], [kind |-> "ok", close |-> 10000]}

At(y, m, d, hh, mm, ss) ==
    [ord |-> ymd2ord(y, m, d), sec |-> hh * 3600 + mm * 60 + ss]

\* instants the clock passes through, in order
Timeline ==
    << At(2025, 1, 10, 23, 59, 0),    \* Friday, ISO week 2 of 2025
       At(2025, 1, 10, 23, 59, 30),   \* same date
       At(2025, 1, 11, 0, 1, 0),      \* next date, same week
       At(2025, 1, 13, 23, 59, 0),    \* next week, same month
       At(2025, 2, 1, 3, 0, 0),       \* next month; market closed
       At(2025, 2, 1, 23, 59, 0),
       At(2026, 1, 9, 23, 59, 0),     \* ISO week 2 of 2026
       At(2026, 1, 10, 0, 1, 0) >>

StartClock == Timeline[1]

Before(a, b) == a.ord < b.ord \/ (a.ord = b.ord /\ a.sec < b.sec)

\* alert files that are not a well-formed record
CorruptFiles ==
    { [exists |-> TRUE, alert_sent |-> FALSE, paren |-> <<>>],
      [exists |-> TRUE, alert_sent |-> TRUE, paren |-> <<>>],
      [exists |-> TRUE, alert_sent |-> TRUE,
       paren |-> << <<2, 0, 2, 5, 1, 3, 4, 0, 0, 0, 0, 0, 0, 0>> >>] }

\* alert files left by earlier runs, or damaged since
InitialFiles == {NoFile, create_alert_file(StartClock)} \cup CorruptFiles

NoCall == [ticker |-> "", kind |-> ""]

\* no ticker is being evaluated
NoFetch == [current_price |-> None, data |-> [kind |-> "none", close |-> 0]]

HeaderRow == << <<"T", "I", "C", "K", "E", "R">> >>

FrequencyTexts == << <<"o", "n", "c", "e">>, <<"d", "a", "i", "l", "y">>,
                    <<"w", "e", "e", "k", "l", "y">>,
                    <<"m", "o", "n", "t", "h", "l", "y">> >>

\* watchlist.txt of the runs: a header and two rows, every alert_frequency
SpecFiles ==
    [k \in 1 .. Len(FrequencyTexts) * Len(FrequencyTexts) |->
        << HeaderRow,
           << <<"A", "A", "A">>, <<"1">>, <<"b", "o", "t", "h">>, <<"1", "0", "2">>, <<"1", "0", "1">>,
              FrequencyTexts[((k - 1) \div Len(FrequencyTexts)) + 1] >>,
           << <<"B", "B", "B">>, <<"0", ".", "5">>, <<"g", "a", "i", "n">>, <<>>, <<>>,
              FrequencyTexts[((k - 1) % Len(FrequencyTexts)) + 1] >> >>]

\* more watchlist.txt files, for the evaluation of the rules
EvalFiles ==
    << \* a header; thresholds 1; gain and drop
       << HeaderRow,
          << <<"A", "A", "A">>, <<"1">>, <<"g", "a", "i", "n">>, <<>>, <<>>, <<"d", "a", "i", "l", "y">> >>,
          << <<"B", "B", "B">>, <<"1">>, <<"d", "r", "o", "p">> >> >>,
       \* thresholds below zero
       << HeaderRow,
          << <<"A", "A", "A">>, <<"-", "1">>, <<"g", "a", "i", "n">> >>,
          << <<"B", "B", "B">>, <<"-", "1">>, <<"b", "o", "t", "h">> >> >>,
       \* targets; words that are no direction and no frequency; an invalid number
       << HeaderRow,
          << <<"A", "A", "A">>, <<"1">>, <<"b", "o", "t", "h">>, <<"1", "0", "2">>, <<"1", "0", "1">>, <<"h", "o", "u", "r", "l", "y">> >>,
          << <<"B", "B", "B">>, <<"a", "b", "c">>, <<"u", "p">>, <<"x">>, <<>>, <<"W", "e", "e", "k", "l", "y">> >> >>,
       \* no header; a comment, a blank line, an empty ticker, a ticker given twice
       << << <<"#", " ", "w", "a", "t", "c", "h">> >>,
          <<>>,
          << <<" ", " ">>, <<"1">>, <<"g", "a", "i", "n">> >>,
          << <<"A", "A", "A">>, <<"1">>, <<"D", "r", "o", "p">> >>,
          << <<"A", "A", "A">>, <<"0", ".", "5">>, <<"G", "A", "I", "N">> >>,
          << <<"B", "B", "B">>, <<"0">>, <<"b", "o", "t", "h">> >> >>,
       \* the second ticker first; padded fields; no threshold
       << HeaderRow,
          << <<"B", "B", "B", " ">>, <<"-", "1">>, <<" ", "d", "r", "o", "p">> >>,
          << <<"A", "A", "A">>, <<>>, <<" ", "B", "O", "T", "H", " ">>, <<"9", "9", ".", "5">>, <<"1", "0", "0", ".", "5">>, <<"O", "N", "C", "E">> >> >> >>

\* every watchlist.txt of the model
Files == SpecFiles \o EvalFiles

EvalFileIds == {k \in DOMAIN Files : k > Len(SpecFiles)}

\* current prices around the thresholds and the targets of EvalFiles
EvalPrices ==
    CurrentPrices \cup {<<9899>>, <<9900>>, <<9950>>, <<10000>>, <<10050>>,
                        <<10100>>, <<10101>>, <<10201>>}

\* parse_watchlist() of each file
ParsedFiles == [k \in DOMAIN Files |-> parse_watchlist(Files[k])]

----------------------------------------------------------------------------
(* The script *)

Init ==
    /\ clock = StartClock
    /\ creds \in BOOLEAN
    /\ watchlist_txt \in DOMAIN SpecFiles
    /\ watchlist = ParsedFiles[watchlist_txt]
    /\ watchlist \in Watchlists
    /\ session = ""
    /\ fetched = NoFetch
    /\ cycle_sent = {}
    /\ alerts \in {f \in [Tickers -> InitialFiles] : f["BBB"] = NoFile}
    /\ pc = "idle"
    /\ idx = 0
    /\ visited = {}
    /\ events = <<>>
    /\ call = NoCall
    /\ should_send = FALSE
    /\ pushover_success = FALSE
    /\ effects = <<>>
    /\ notified = [t \in Tickers |-> <<>>]
    /\ retry = [t \in Tickers |-> FALSE]

\* time passes: between runs, and while log_alert waits for the notifier
Tick ==
    /\ pc \in {"idle", "crashed", "notify", "record"}
    /\ \E i \in 1 .. Horizon :
          /\ i <= Len(Timeline)
          /\ Before(clock, Timeline[i])
          /\ clock' = Timeline[i]
    /\ UNCHANGED <<creds, watchlist_txt, watchlist, session, fetched, cycle_sent, alerts,
                   pc, idx, visited, events, call, should_send,
                   pushover_success, effects, notified, retry>>

\* check_stock_price_change without the return of lines 347-349
StartCycle_IgnoresClosed ==
    /\ pc \in {"idle", "crashed"}
    /\ watchlist' = ParsedFiles[watchlist_txt]
    /\ visited' = {}
    /\ events' = <<>>
    /\ fetched' = NoFetch
    /\ cycle_sent' = {}
    /\ IF watchlist' = <<>>
       THEN session' = "" /\ pc' = "done" /\ idx' = 0
       ELSE /\ session' = get_market_session(clock)
            /\ pc' = "fetch" /\ idx' = 1
    /\ UNCHANGED <<clock, creds, watchlist_txt, alerts, call, should_send,
                   pushover_success, effects, notified, retry>>

\* check_stock_price_change, up to the loop
StartCycle ==
    /\ pc \in {"idle", "crashed"}
    /\ watchlist' = ParsedFiles[watchlist_txt]
    /\ visited' = {}
    /\ events' = <<>>
    /\ fetched' = NoFetch
    /\ cycle_sent' = {}
    /\ IF watchlist' = <<>>
       THEN session' = "" /\ pc' = "done" /\ idx' = 0
       ELSE /\ session' = get_market_session(clock)
            /\ IF session' = "closed"
               THEN pc' = "done" /\ idx' = 0
               ELSE pc' = "fetch" /\ idx' = 1
    /\ UNCHANGED <<clock, creds, watchlist_txt, alerts, call, should_send,
                   pushover_success, effects, notified, retry>>

\* where the loop goes after the ticker at idx
NextTicker == IF idx < Len(watchlist) THEN "fetch" ELSE "done"

NextIdx == IF idx < Len(watchlist) THEN idx + 1 ELSE idx

\* the loop body with an uncaught error of the price history download
FetchWith_Uncaught(prices, downloads) ==
    /\ pc = "fetch"
    /\ visited' = visited \cup {watchlist[idx].ticker}
    /\ \E current_price \in prices, data \in downloads :
          IF current_price = None
          THEN /\ fetched' = NoFetch
               /\ events' = <<>>
               /\ pc' = NextTicker
               /\ idx' = NextIdx
          ELSE IF data.kind = "short"
          THEN /\ fetched' = NoFetch
               /\ events' = <<>>
               /\ pc' = NextTicker
               /\ idx' = NextIdx
          ELSE IF data.kind = "error" \/ data.close = 0
          THEN /\ fetched' = NoFetch
               /\ events' = <<>>
               /\ pc' = "crashed"
               /\ idx' = idx
          ELSE LET fired == FiredRules(watchlist[idx], current_price[1], data.close)
               IN  /\ fetched' = [current_price |-> current_price, data |-> data]
                   /\ events' = fired
                   /\ IF fired # <<>>
                      THEN pc' = "log_alert" /\ idx' = idx
                      ELSE pc' = NextTicker /\ idx' = NextIdx
    /\ UNCHANGED <<clock, creds, watchlist_txt, watchlist, session, cycle_sent, alerts,
                   call, should_send, pushover_success, effects, notified, retry>>

\* loop body for one ticker, up to its first log_alert call, with
\* get_current_price returning one of prices and yf.download one of downloads
FetchWith(prices, downloads) ==
    /\ pc = "fetch"
    /\ visited' = visited \cup {watchlist[idx].ticker}
    /\ \E current_price \in prices, data \in downloads :
          IF current_price = None
          THEN \* continue, before any download
               /\ fetched' = NoFetch
               /\ events' = <<>>
               /\ pc' = NextTicker
               /\ idx' = NextIdx
          ELSE IF data.kind # "ok"
          THEN \* continue: nothing of this ticker is evaluated
               /\ fetched' = NoFetch
               /\ events' = <<>>
               /\ pc' = NextTicker
               /\ idx' = NextIdx
          ELSE IF data.close = 0
          THEN \* ZeroDivisionError, raised outside the try block: the
               \* process ends and its locals with it
               /\ fetched' = NoFetch
               /\ events' = <<>>
               /\ pc' = "crashed"
               /\ idx' = idx
          ELSE LET fired == FiredRules(watchlist[idx], current_price[1], data.close)
               IN  /\ fetched' = [current_price |-> current_price, data |-> data]
                   /\ events' = fired
                   /\ IF fired # <<>>
                      THEN pc' = "log_alert" /\ idx' = idx
                      ELSE pc' = NextTicker /\ idx' = NextIdx
    /\ UNCHANGED <<clock, creds, watchlist_txt, watchlist, session, cycle_sent, alerts,
                   call, should_send, pushover_success, effects, notified, retry>>

Fetch == FetchWith(CurrentPrices, Downloads)

\* where the script goes when a log_alert call returns
AfterCall(rest) == IF rest # <<>> THEN "log_alert" ELSE NextTicker

AfterCallIdx(rest) == IF rest # <<>> THEN idx ELSE NextIdx

\* log_alert whose skipped branch returns without appending to LOG_FILE
LogAlertGate_SkipUnlogged ==
    /\ pc = "log_alert"
    /\ LET ticker == watchlist[idx].ticker
           ok == should_send_alert(alerts[ticker], watchlist[idx].alert_frequency, clock)
       IN  /\ call' = [ticker |-> ticker, kind |-> Head(events)]
           /\ should_send' = ok
           /\ IF ~ok
              THEN /\ effects' = <<"print_skipping", "print_details">>
                   /\ events' = Tail(events)
                   /\ pc' = AfterCall(Tail(events))
                   /\ idx' = AfterCallIdx(Tail(events))
              ELSE /\ effects' = <<"print">>
                   /\ events' = events
                   /\ pc' = "notify"
                   /\ idx' = idx
    /\ pushover_success' = FALSE
    /\ UNCHANGED <<clock, creds, watchlist_txt, watchlist, session, fetched, cycle_sent,
                   alerts, visited, notified, retry>>

\* log_alert, lines 118-132: the gate, and the whole of the skipped branch
LogAlertGate ==
    /\ pc = "log_alert"
    /\ LET ticker == watchlist[idx].ticker
           ok == should_send_alert(alerts[ticker], watchlist[idx].alert_frequency, clock)
       IN  /\ call' = [ticker |-> ticker, kind |-> Head(events)]
           /\ should_send' = ok
           /\ IF ~ok
              THEN /\ effects' = <<"print_skipping", "print_details", "log_file">>
                   /\ events' = Tail(events)
                   /\ pc' = AfterCall(Tail(events))
                   /\ idx' = AfterCallIdx(Tail(events))
              ELSE /\ effects' = <<"print">>
                   /\ events' = events
                   /\ pc' = "notify"
                   /\ idx' = idx
    /\ pushover_success' = FALSE
    /\ UNCHANGED <<clock, creds, watchlist_txt, watchlist, session, fetched, cycle_sent,
                   alerts, visited, notified, retry>>

\* history of successful notifications: the dates of the last two
Remember(h, ord) == IF Len(h) < 2 THEN Append(h, ord) ELSE <<h[2], ord>>

\* send_pushover_notification
Notify ==
    /\ pc = "notify"
    /\ IF ~creds
       THEN /\ pushover_success' = FALSE
            /\ effects' = Append(effects, "print_no_credentials")
       ELSE \E ok \in BOOLEAN :
            /\ pushover_success' = ok
            /\ effects' = Append(effects, IF ok THEN "post_ok" ELSE "post_failed")
    /\ notified' = IF pushover_success'
                   THEN [notified EXCEPT ![call.ticker] = Remember(@, clock.ord)]
                   ELSE notified
    /\ retry' = [retry EXCEPT ![call.ticker] = ~pushover_success']
    /\ cycle_sent' = IF pushover_success' THEN cycle_sent \cup {call.ticker}
                     ELSE cycle_sent
    /\ pc' = "record"
    /\ UNCHANGED <<clock, creds, watchlist_txt, watchlist, session, fetched, alerts, idx,
                   visited, events, call, should_send>>

\* log_alert that creates the alert file whatever the notifier returned
Record_AlwaysWrite ==
    /\ pc = "record"
    /\ effects' = effects \o <<"log_file", "alert_file">>
    /\ alerts' = [alerts EXCEPT ![call.ticker] = create_alert_file(clock)]
    /\ events' = Tail(events)
    /\ pc' = AfterCall(Tail(events))
    /\ idx' = AfterCallIdx(Tail(events))
    /\ UNCHANGED <<clock, creds, watchlist_txt, watchlist, session, fetched, cycle_sent,
                   visited, call, should_send, pushover_success, notified, retry>>

\* log_alert that leaves an alert file that exists as it is
Record_KeepsExisting ==
    /\ pc = "record"
    /\ IF pushover_success
       THEN /\ effects' = effects \o <<"log_file", "alert_file">>
            /\ alerts' = IF alerts[call.ticker].exists THEN alerts
                         ELSE [alerts EXCEPT ![call.ticker] = create_alert_file(clock)]
       ELSE /\ effects' = Append(effects, "log_file")
            /\ alerts' = alerts
    /\ events' = Tail(events)
    /\ pc' = AfterCall(Tail(events))
    /\ idx' = AfterCallIdx(Tail(events))
    /\ UNCHANGED <<clock, creds, watchlist_txt, watchlist, session, fetched, cycle_sent,
                   visited, call, should_send, pushover_success, notified, retry>>

\* log_alert, lines 137-143
Record ==
    /\ pc = "record"
    /\ IF pushover_success
       THEN /\ effects' = effects \o <<"log_file", "alert_file">>
            /\ alerts' = [alerts EXCEPT ![call.ticker] = create_alert_file(clock)]
       ELSE /\ effects' = Append(effects, "log_file")
            /\ alerts' = alerts
    /\ events' = Tail(events)
    /\ pc' = AfterCall(Tail(events))
    /\ idx' = AfterCallIdx(Tail(events))
    /\ UNCHANGED <<clock, creds, watchlist_txt, watchlist, session, fetched, cycle_sent,
                   visited, call, should_send, pushover_success, notified, retry>>

\* check_stock_price_change returns: its locals end
Return ==
    /\ pc = "done"
    /\ pc' = "idle"
    /\ session' = ""
    /\ fetched' = NoFetch
    /\ cycle_sent' = {}
    /\ UNCHANGED <<clock, creds, watchlist_txt, watchlist, alerts, idx, visited, events,
                   call, should_send, pushover_success, effects, notified, retry>>

Next == Tick \/ StartCycle \/ Fetch \/ LogAlertGate \/ Notify \/ Record \/ Return

Spec == Init /\ [][Next]_vars

----------------------------------------------------------------------------
(* The gate alone: should_send_alert applied once, by log_alert, to an      *)
(* alert file and a clock drawn from a wider set of dates and times.        *)

\* days after the start date: same week, next week, month end, next month,
\* ISO week 1 of 2026 (in 2025 and in 2026), ISO week 2 of 2026
GateDayOffsets == {0, 1, 3, 21, 22, 353, 356, 364}

\* 00:01:00, 23:59:00, 23:59:30
GateTimes == {60, 23 * 3600 + 59 * 60, 23 * 3600 + 59 * 60 + 30}

GateInstants ==
    {[ord |-> StartClock.ord + j, sec |-> s] : j \in GateDayOffsets, s \in GateTimes}

GateFiles ==
    {NoFile} \cup CorruptFiles \cup {create_alert_file(c) : c \in GateInstants}

InitGate ==
    /\ clock \in GateInstants
    /\ creds = TRUE
    /\ watchlist_txt \in DOMAIN SpecFiles
    /\ watchlist = ParsedFiles[watchlist_txt]
    /\ watchlist \in {w \in Watchlists : w[2].alert_frequency = "daily"}
    /\ session = "post-market"
    /\ fetched = [current_price |-> <<10150>>, data |-> [kind |-> "ok", close |-> 10000]]
    /\ cycle_sent = {}
    /\ alerts \in {f \in [Tickers -> GateFiles] : f["BBB"] = NoFile}
    /\ pc = "log_alert"
    /\ idx = 1
    /\ visited = {"AAA"}
    /\ events = FiredRules(watchlist[1], 10150, 10000)
    /\ call = NoCall
    /\ should_send = FALSE
    /\ pushover_success = FALSE
    /\ effects = <<>>
    /\ notified = [t \in Tickers |-> <<>>]
    /\ retry = [t \in Tickers |-> FALSE]

SpecGate == InitGate /\ [][LogAlertGate]_vars

----------------------------------------------------------------------------
(* The rules alone: cycles at one instant of the post-market session, over  *)
(* the watchlist files of EvalFiles and prices around their thresholds.     *)

InitEval ==
    /\ clock = StartClock
    /\ creds \in BOOLEAN
    /\ watchlist_txt \in EvalFileIds
    /\ watchlist = ParsedFiles[watchlist_txt]
    /\ session = ""
    /\ fetched = NoFetch
    /\ cycle_sent = {}
    /\ alerts = [t \in Tickers |-> NoFile]
    /\ pc = "idle"
    /\ idx = 0
    /\ visited = {}
    /\ events = <<>>
    /\ call = NoCall
    /\ should_send = FALSE
    /\ pushover_success = FALSE
    /\ effects = <<>>
    /\ notified = [t \in Tickers |-> <<>>]
    /\ retry = [t \in Tickers |-> FALSE]

FetchEval == FetchWith(EvalPrices, Downloads)

NextEval == StartCycle \/ FetchEval \/ LogAlertGate \/ Notify \/ Record \/ Return

SpecEval == InitEval /\ [][NextEval]_vars

----------------------------------------------------------------------------
(* The session classifier alone: a cycle begun at every second of a day.    *)

InitSession ==
    /\ clock \in {[ord |-> StartClock.ord, sec |-> sec] : sec \in 0 .. 86399}
    /\ creds = TRUE
    /\ watchlist_txt = 1
    /\ watchlist = ParsedFiles[watchlist_txt]
    /\ session = ""
    /\ fetched = NoFetch
    /\ cycle_sent = {}
    /\ alerts = [t \in Tickers |-> NoFile]
    /\ pc = "idle"
    /\ idx = 0
    /\ visited = {}
    /\ events = <<>>
    /\ call = NoCall
    /\ should_send = FALSE
    /\ pushover_success = FALSE
    /\ effects = <<>>
    /\ notified = [t \in Tickers |-> <<>>]
    /\ retry = [t \in Tickers |-> FALSE]

SpecSession == InitSession /\ [][StartCycle]_vars

----------------------------------------------------------------------------
(* Properties *)

\* the alert_frequency of a ticker of the watchlist
Freq(t) ==
    watchlist[CHOOSE i \in 1 .. Len(watchlist) : watchlist[i].ticker = t].alert_frequency

\* the ticker whose loop body is running
Current == watchlist[idx].ticker

\* the file is a record create_alert_file can have written
WellFormed(file) ==
    /\ file.exists
    /\ file.alert_sent
    /\ file.paren # <<>>
    /\ StrptimeOk(file.paren[1])

\* the date written in a well-formed record, as a day ordinal
RecordOrd(file) ==
    LET dt == strptime(file.paren[1]) IN ymd2ord(dt.year, dt.month, dt.day)

\* the Monday that begins the ISO week of a day
WeekStart(ord) == ord - ((ord + 6) % 7)

\* the month of a day, counted from year 0
MonthIndex(dt) == dt.year * 12 + dt.month

Has(seq, x) == \E i \in 1 .. Len(seq) : seq[i] = x

\* log_alert has consulted the gate (under SpecGate: on the drawn file and clock)
GateRan == call # NoCall

(* C1: an alert file changes only in log_alert's last step, for the ticker  *)
(* of the call, when the gate approved the call and the notifier returned   *)
(* success for it; after a failed or skipped notification the files are     *)
(* left as they were.                                                       *)
C1_RecordOnlyAfterSuccess ==
    [][ /\ \A t \in Tickers :
             alerts'[t] # alerts[t] =>
                 /\ pc = "record"
                 /\ call.ticker = t
                 /\ should_send
                 /\ pushover_success
                 /\ effects = <<"print", "post_ok">>
                 /\ alerts'[t] = create_alert_file(clock)
        /\ (pc = "record" /\ ~pushover_success) => alerts' = alerts
        /\ pc = "notify" => alerts' = alerts ]_vars

C1_Witness ==
    /\ pc # "record"
    /\ pushover_success
    /\ effects = <<"print", "post_ok", "log_file", "alert_file">>
    /\ alerts[call.ticker] = create_alert_file(clock)

(* C2: the gate step never changes an alert file; when it rejects, the      *)
(* message goes to LOG_FILE, the notifier is not called and the call        *)
(* returns.                                                                 *)
C2_GateRejection ==
    [][ pc = "log_alert" =>
            /\ alerts' = alerts
            /\ ~should_send' =>
                   /\ Has(effects', "log_file")
                   /\ Has(effects', "print_details")
                   /\ ~Has(effects', "post_ok") /\ ~Has(effects', "post_failed")
                   /\ pc' # "notify"
                   /\ events' = Tail(events)
                   /\ notified' = notified
                   /\ retry' = retry ]_vars

C2_Witness ==
    /\ GateRan
    /\ ~should_send
    /\ alerts[call.ticker].exists
    /\ effects = <<"print_skipping", "print_details", "log_file">>

(* C3: a ticker with alert_frequency once is notified successfully at most  *)
(* once; once its alert file exists, the file stays, the gate rejects every *)
(* event of the ticker and the notifier is not called for it.               *)
C3_OnceNeverAgain ==
    /\ [](\A t \in Tickers : Freq(t) = "once" => Len(notified[t]) <= 1)
    /\ [][ \A t \in Tickers :
              (Freq(t) = "once" /\ alerts[t].exists) =>
                  /\ alerts'[t] = alerts[t]
                  /\ notified'[t] = notified[t]
                  /\ (pc = "log_alert" /\ Current = t) =>
                         (~should_send' /\ pc' # "notify") ]_vars

\* a once ticker notified in January 2025 is rejected in January 2026
C3_Witness ==
    /\ GateRan
    /\ Freq(call.ticker) = "once"
    /\ Len(notified[call.ticker]) = 1
    /\ WellFormed(alerts[call.ticker])
    /\ now(clock).year = 2026
    /\ strptime(alerts[call.ticker].paren[1]).year = 2025
    /\ ~should_send
    /\ pc \in {"fetch", "idle", "log_alert"}

(* C4: with frequency daily and a well-formed record the gate returns true  *)
(* exactly when the clock's date is later than the record's date.           *)
C4_DailyByCalendarDate ==
    (GateRan /\ Freq(call.ticker) = "daily" /\ WellFormed(alerts[call.ticker]))
        => (should_send <=> RecordOrd(alerts[call.ticker]) < clock.ord)

\* record at 2025-01-10 23:59:00, gate at 2025-01-11 00:01:00: approved
C4_Witness ==
    /\ GateRan
    /\ Freq(call.ticker) = "daily"
    /\ alerts[call.ticker] = create_alert_file(At(2025, 1, 10, 23, 59, 0))
    /\ clock = At(2025, 1, 11, 0, 1, 0)
    /\ should_send

(* C5: with frequency daily, weekly or monthly, the gate returns true for   *)
(* every alert file that exists and is not a well-formed record.            *)
C5_CorruptFailsOpen ==
    (/\ GateRan
     /\ Freq(call.ticker) \in {"daily", "weekly", "monthly"}
     /\ alerts[call.ticker].exists
     /\ ~WellFormed(alerts[call.ticker]))
        => should_send

(* C6: a cycle that began evaluating tickers never ends by the division by  *)
(* zero, and when it has ended every ticker of the watchlist was evaluated. *)
C6_ZeroPreviousCloseSkipped ==
    /\ pc # "crashed"
    /\ (pc = "idle" /\ visited # {}) =>
           visited = {watchlist[i].ticker : i \in 1 .. Len(watchlist)}

(* C7: after an approved event of a ticker whose notification failed, the   *)
(* gate approves the next event of that ticker and the notifier is called   *)
(* again, for every frequency.                                              *)
C7_FailedNotificationRetried ==
    [][ (pc = "log_alert" /\ retry[Current]) =>
            (should_send' /\ pc' = "notify") ]_vars

\* a once ticker whose notification failed is approved again
C7_Witness ==
    /\ pc = "notify"
    /\ should_send
    /\ retry[call.ticker]
    /\ Freq(call.ticker) = "once"
    /\ effects = <<"print">>

(* C8: a ticker with frequency daily is notified successfully at most once  *)
(* per calendar date, and the gate approves its event on every date later   *)
(* than the date of its record.                                             *)
C8_DailyOncePerDate ==
    /\ [](\A t \in Tickers :
             (Freq(t) = "daily" /\ Len(notified[t]) = 2) =>
                 notified[t][1] < notified[t][2])
    /\ [][ \A t \in Tickers :
              (/\ pc = "log_alert" /\ Current = t
               /\ Freq(t) = "daily"
               /\ WellFormed(alerts[t])
               /\ RecordOrd(alerts[t]) < clock.ord) =>
                  (should_send' /\ pc' = "notify") ]_vars

\* notified on 2025-01-10 late and again on 2025-01-11 at 00:01:00
C8_Witness ==
    /\ Freq("AAA") = "daily"
    /\ notified["AAA"] = <<ymd2ord(2025, 1, 10), ymd2ord(2025, 1, 11)>>
    /\ alerts["AAA"] = create_alert_file(At(2025, 1, 11, 0, 1, 0))

(* C9: with a well-formed record, weekly returns true exactly when the      *)
(* clock and the record lie in different ISO weeks, and monthly exactly     *)
(* when they lie in different months of the calendar.                       *)
C9_WeeklyMonthlyByCalendar ==
    (GateRan /\ WellFormed(alerts[call.ticker])) =>
        /\ Freq(call.ticker) = "weekly" =>
               (should_send <=>
                    WeekStart(RecordOrd(alerts[call.ticker])) # WeekStart(clock.ord))
        /\ Freq(call.ticker) = "monthly" =>
               (should_send <=>
                    MonthIndex(strptime(alerts[call.ticker].paren[1]))
                        # MonthIndex(now(clock)))

\* record in ISO week 2 of 2025, gate in ISO week 2 of 2026: approved
C9_Witness ==
    /\ GateRan
    /\ Freq(call.ticker) = "weekly"
    /\ alerts[call.ticker] = create_alert_file(At(2025, 1, 10, 23, 59, 0))
    /\ clock = At(2026, 1, 9, 23, 59, 0)
    /\ isocalendar(now(clock)).week = 2
    /\ should_send

(* C10: with no alert file the gate returns true for every frequency.       *)
C10_FirstAlertNeverSuppressed ==
    (GateRan /\ ~alerts[call.ticker].exists) => should_send

C10_Witness ==
    /\ GateRan
    /\ ~alerts[call.ticker].exists
    /\ Freq(call.ticker) = "once"
    /\ should_send

----------------------------------------------------------------------------
(* Properties of the rules, the parser, the cycle and the session.          *)

\* the step is the loop body of the ticker at idx and it evaluated the rules
Evaluated == pc = "fetch" /\ fetched' # NoFetch

Abs(n) == IF n < 0 THEN 0 - n ELSE n

\* percent_change = x, for x in hundredths of a percent
PercentEqual(current_price, previous_close, x) ==
    (current_price - previous_close) * 10000 = x * previous_close

(* C11: for every parsed entry and prices with a previous close that is not *)
(* zero, a gain entry does not fire the percent-change rule on a negative   *)
(* change, a drop entry does not fire it on a positive change, and a both   *)
(* entry fires it exactly when the magnitude of the change is above the     *)
(* threshold.                                                               *)
C11_DirectionSemantics ==
    [][ Evaluated =>
          LET config == watchlist[idx]
              cur == fetched'.current_price[1]
              prev == fetched'.data.close
              fired == Has(events', "percent_change")
          IN  /\ (config.direction = "gain" /\ PercentBelow(cur, prev, 0)) => ~fired
              /\ (config.direction = "drop" /\ PercentAbove(cur, prev, 0)) => ~fired
              /\ config.direction = "both" =>
                    (fired <=> Abs(cur - prev) * 10000 > config.threshold * Abs(prev))
      ]_vars

(* C12: price_below fires exactly when it is set and the current price is   *)
(* below it, price_above exactly when it is set and the current price is    *)
(* above it, whatever the percent-change rule does; every rule that fires   *)
(* gives one event of its own.                                              *)
C12_TargetsIndependent ==
    [][ Evaluated =>
          LET config == watchlist[idx]
              cur == fetched'.current_price[1]
              below == config.price_below # None /\ cur < config.price_below[1]
              above == config.price_above # None /\ cur > config.price_above[1]
              kinds == {events'[i] : i \in 1 .. Len(events')}
          IN  /\ Has(events', "price_below") <=> below
              /\ Has(events', "price_above") <=> above
              /\ Len(events') = Cardinality(kinds)
              /\ kinds \subseteq {"percent_change", "price_below", "price_above"}
      ]_vars

\* all three rules fired for one ticker in one cycle
C12_Witness ==
    /\ pc = "log_alert"
    /\ fetched # NoFetch
    /\ call.ticker # Current
    /\ events = <<"percent_change", "price_below", "price_above">>

(* C13: a percent change equal to the threshold (gain, both) or to minus    *)
(* the threshold (drop, both) does not fire the percent-change rule.        *)
C13_StrictThreshold ==
    [][ Evaluated =>
          LET config == watchlist[idx]
              cur == fetched'.current_price[1]
              prev == fetched'.data.close
              fired == Has(events', "percent_change")
          IN  /\ (config.direction \in {"gain", "both"}
                  /\ PercentEqual(cur, prev, config.threshold)) => ~fired
              /\ (config.direction \in {"drop", "both"}
                  /\ PercentEqual(cur, prev, 0 - config.threshold)) => ~fired
      ]_vars

\* what yf.download gives when the previous close cannot be read
FailedDownloads == {d \in Downloads : d.kind # "ok"}

(* C14: the loop body of a ticker whose current price is missing, whose     *)
(* price history is shorter than two rows or whose download raises an error *)
(* gives no event, calls neither the gate nor the notifier, leaves the      *)
(* alert files as they are, and the loop goes on with the next ticker (or   *)
(* the cycle ends as usual after the last one).                             *)
C14_SkippedTicker ==
    [][ (FetchWith({None}, Downloads) \/ FetchWith(EvalPrices, FailedDownloads)) =>
          /\ events' = <<>>
          /\ fetched' = NoFetch
          /\ alerts' = alerts
          /\ notified' = notified
          /\ call' = call
          /\ effects' = effects
          /\ visited' = visited \cup {Current}
          /\ idx < Len(watchlist) => (pc' = "fetch" /\ idx' = idx + 1)
          /\ idx = Len(watchlist) => pc' = "done"
      ]_vars

\* the first ticker was skipped and the loop body of the second is to run
C14_Witness ==
    /\ pc = "fetch"
    /\ idx = Len(watchlist)
    /\ Cardinality(visited) = idx - 1
    /\ visited # {}
    /\ fetched = NoFetch
    /\ events = <<>>

\* the data rows of the watchlist.txt on disk
DataRows ==
    LET data == rows_to_process(Files[watchlist_txt])
    IN  {data[r] : r \in {q \in 1 .. Len(data) : ~SkippedRow(data[q])}}

\* the last data row of a ticker
LastRow(t) ==
    LET data == rows_to_process(Files[watchlist_txt])
        mine == {r \in 1 .. Len(data) :
                    ~SkippedRow(data[r]) /\ Word(strip(data[r][1])) = t}
    IN  data[CHOOSE r \in mine : \A q \in mine : q <= r]

\* the lower-case word in field k of a row ("" when the field is missing or blank)
RawWord(row, k) ==
    IF Len(row) >= k /\ strip(row[k]) # <<>> THEN Word(lower(strip(row[k]))) ELSE ""

Directions == {"both", "gain", "drop"}

(* C15: every data row of watchlist.txt gives an entry; the direction of an *)
(* entry is the row's direction when that is gain, drop or both and both    *)
(* otherwise; its alert_frequency is the row's when that is once, daily,    *)
(* weekly or monthly and daily otherwise.                                   *)
C15_EnumsNormalized ==
    /\ \A row \in DataRows :
          \E i \in 1 .. Len(watchlist) : watchlist[i].ticker = Word(strip(row[1]))
    /\ \A i \in 1 .. Len(watchlist) :
          LET row == LastRow(watchlist[i].ticker)
          IN  /\ watchlist[i].direction \in Directions
              /\ watchlist[i].alert_frequency \in Frequencies
              /\ watchlist[i].direction =
                    IF RawWord(row, 3) \in Directions THEN RawWord(row, 3) ELSE "both"
              /\ watchlist[i].alert_frequency =
                    IF RawWord(row, 6) \in Frequencies THEN RawWord(row, 6) ELSE "daily"

\* a cycle has parsed a row whose direction and frequency are no enum values
C15_Witness ==
    /\ pc = "fetch"
    /\ \E i \in 1 .. Len(watchlist) :
          /\ RawWord(LastRow(watchlist[i].ticker), 3) \notin Directions \cup {""}
          /\ watchlist[i].direction = "both"
    /\ \E i \in 1 .. Len(watchlist) :
          /\ RawWord(LastRow(watchlist[i].ticker), 6) \notin Frequencies \cup {""}
          /\ watchlist[i].alert_frequency = "daily"

\* what send_pushover_notification leaves in effects
Attempts == {"post_ok", "post_failed", "print_no_credentials"}

(* C16: in an approved log_alert call the console line and the LOG_FILE     *)
(* line come before the notification attempt, and the attempt comes before  *)
(* the write of the alert file.                                             *)
C16_LogNotifyPersist ==
    (GateRan /\ should_send) =>
        \A i, j \in 1 .. Len(effects) :
            /\ (effects[i] \in {"print", "log_file"} /\ effects[j] \in Attempts) => i < j
            /\ (effects[i] \in Attempts /\ effects[j] = "alert_file") => i < j

\* the date of the last successful notification of a ticker
LastNotified(t) == notified[t][Len(notified[t])]

(* C17: once an event of a ticker has been notified successfully in a       *)
(* cycle, the gate rejects every later event of that ticker in the cycle    *)
(* while the date is the date of that notification, whatever the kind of    *)
(* the event and the frequency; a second success of the ticker in the       *)
(* cycle comes only on a later date.                                        *)
C17_OneSuccessPerCycle ==
    /\ [][ (pc = "log_alert" /\ Current \in cycle_sent
            /\ LastNotified(Current) = clock.ord) =>
               (~should_send' /\ pc' # "notify") ]_vars
    /\ [][ (pc = "notify" /\ pushover_success' /\ call.ticker \in cycle_sent) =>
               LastNotified(call.ticker) < clock.ord ]_vars

\* a target event of a ticker notified earlier in the cycle was rejected
C17_Witness ==
    /\ GateRan
    /\ call.ticker \in cycle_sent
    /\ LastNotified(call.ticker) = clock.ord
    /\ call.kind \in {"price_below", "price_above"}
    /\ ~should_send
    /\ effects = <<"print_skipping", "print_details", "log_file">>

(* C18: a cycle whose session is closed returns at once: no loop body runs, *)
(* no rule is evaluated, log_alert is not called and no alert file, history *)
(* or log_alert effect changes.                                             *)
C18_ClosedIsNoOp ==
    /\ [](session = "closed" =>
            (pc = "done" /\ visited = {} /\ events = <<>> /\ fetched = NoFetch))
    /\ [][ (session = "closed" \/ session' = "closed") =>
              /\ alerts' = alerts
              /\ notified' = notified
              /\ retry' = retry
              /\ call' = call
              /\ effects' = effects
              /\ cycle_sent' = {} ]_vars

\* a closed cycle with an alert file on disk
C18_Witness ==
    /\ session = "closed"
    /\ pc = "done"
    /\ get_market_session(clock) = "closed"
    /\ \E t \in Tickers : alerts[t].exists

\* hour and minute of the New York time
NewYorkHM(c) == <<NewYorkSec(c) \div 3600, (NewYorkSec(c) % 3600) \div 60>>

\* hm is at or after hour:minute
AtOrAfter(hm, hour, minute) == hm[1] > hour \/ (hm[1] = hour /\ hm[2] >= minute)

(* C19: the session is pre-market for [04:00, 09:30), regular for [09:30,   *)
(* 16:00), post-market for [16:00, 20:00) and closed at every other time of *)
(* the day.                                                                 *)
C19_HalfOpenSessions ==
    session # "" =>
        LET hm == NewYorkHM(clock)
        IN  /\ session \in {"pre-market", "regular", "post-market", "closed"}
            /\ session = "pre-market" <=> (AtOrAfter(hm, 4, 0) /\ ~AtOrAfter(hm, 9, 30))
            /\ session = "regular" <=> (AtOrAfter(hm, 9, 30) /\ ~AtOrAfter(hm, 16, 0))
            /\ session = "post-market" <=> (AtOrAfter(hm, 16, 0) /\ ~AtOrAfter(hm, 20, 0))
            /\ session = "closed" <=> (~AtOrAfter(hm, 4, 0) \/ AtOrAfter(hm, 20, 0))

\* 09:30:00 in New York is regular
C19_Witness ==
    /\ session = "regular"
    /\ NewYorkSec(clock) = 9 * 3600 + 30 * 60

====
